---- MODULE Spec2Model ----
(***************************************************************************)
(* MindneySDK (mindney/nodejs): credential validation, session opening and *)
(* the request/acknowledgment correlation over one socket.io session.      *)
(*                                                                         *)
(* The repository holds three builds of the same class:                    *)
(*   "index"   src/src/index.ts          endpoint override, console output *)
(*   "debug"   src/unnamed/part_000:1-185   debug flag, winston logger,    *)
(*                                          credentials as extra headers   *)
(*   "legacy"  src/unnamed/part_000:187-336 fixed endpoint, console output *)
(* `variant` says which one is running.  The configuration is a JavaScript *)
(* object: a field that is not given is absent from its DOMAIN.            *)
(***************************************************************************)
EXTENDS Integers, Sequences, FiniteSets, TLC

VARIABLES variant, phase, config, self, thrown, ioCalls, listeners,
          calls, emitted, sink, nEvents, lastEvent

vars == <<variant, phase, config, self, thrown, ioCalls, listeners,
          calls, emitted, sink, nEvents, lastEvent>>

(* ---------------------------- bounds ----------------------------------- *)
MaxCalls == 2
MaxEvents == 3

(* ---------------------------- values ----------------------------------- *)
Variants == {"index", "debug", "legacy"}

\* the value of a field that is read but was never given (JS undefined)
Undefined == "<undefined>"

DefaultEndpoint == "https://ai.mindney.com"

CredValues == {"", " ", "id"}
EndpointValues == {"http://localhost:3000"}

Opt(f, V) == {<<>>} \cup {f :> v : v \in V}

Configs ==
  {a @@ b @@ c @@ d @@ e :
     a \in Opt("clientId", CredValues),
     b \in Opt("apiKey", CredValues),
     c \in Opt("secretToken", CredValues),
     d \in Opt("endpoint", EndpointValues),
     e \in Opt("debug", BOOLEAN)}

\* property read: config.f
Get(obj, f) == IF f \in DOMAIN obj THEN obj[f] ELSE Undefined

\* JS truthiness of a string-or-undefined value
Falsy(v) == v = Undefined \/ v = ""

\* HumanMessage values handed to request()
Payloads == {[prompt |-> "p", body |-> [x |-> 1]], [prompt |-> "q"]}

\* acknowledgment envelopes the service can answer with
Envelopes ==
  {[operation |-> "echo", data |-> [x |-> 1]],
   [code |-> 404, message |-> "not found"],
   [code |-> 0, message |-> "", operation |-> "echo", data |-> [x |-> 1]]}

\* values carried by the transport's generic "error" event
ErrorValues == {[description |-> "parse error"], [type |-> "TransportError"]}

\* values carried by "connect_error" and "disconnect"
ConnectErrors == {[name |-> "Error", message |-> "xhr poll error"]}
Reasons == {"transport close"}

NoValue == <<>>
NoEvent == [type |-> "none"]

(* --------------------------- pure helpers ------------------------------ *)
\* JSON.stringify on the values above; an Error instance has no enumerable
\* own property and serialises to "{}"
JSONStringify(v) ==
  CASE v = [x |-> 1] -> "{\"x\":1}"
    [] v = [description |-> "parse error"] -> "{\"description\":\"parse error\"}"
    [] v = [type |-> "TransportError"] -> "{\"type\":\"TransportError\"}"
    [] v = [name |-> "Error", message |-> "xhr poll error"] -> "{}"
    [] OTHER -> "{}"

\* `${JSON.stringify(payload.body)}`: an absent body prints as "undefined"
BodyText(payload) ==
  IF "body" \in DOMAIN payload THEN JSONStringify(payload.body) ELSE "undefined"

\* this.log(type, text): nothing unless this.debug
log(this, out, type, text) ==
  IF ~this.debug THEN out
  ELSE Append(out, [via |-> "logger", level |-> type, text |-> text])

\* console.log / console.error of the builds without a debug flag
console(out, level, args) ==
  Append(out, [via |-> "console", level |-> level, text |-> args])

\* variant of validateCredentials: throws only when nothing at all is given
validateCredentialsAllMissing(this) ==
  Falsy(this.clientId) /\ Falsy(this.apiKey) /\ Falsy(this.secretToken)

\* validateCredentials(): TRUE when it throws
validateCredentials(this) ==
  Falsy(this.clientId) \/ Falsy(this.apiKey) \/ Falsy(this.secretToken)

CredentialsError == "Client ID, API key, and secret token are required"

\* the effective endpoint of each build
endpointIndex(cfg) ==
  IF "endpoint" \in DOMAIN cfg THEN cfg.endpoint ELSE DefaultEndpoint
endpointDebug(cfg) == DefaultEndpoint
endpointLegacy(cfg) == DefaultEndpoint

\* field assignments at the top of the constructor
fields(v, cfg) ==
  [debug |-> IF v = "debug" /\ "debug" \in DOMAIN cfg THEN cfg.debug ELSE FALSE,
   endpoint |-> CASE v = "index" -> endpointIndex(cfg)
                  [] v = "debug" -> endpointDebug(cfg)
                  [] OTHER -> endpointLegacy(cfg),
   clientId |-> Get(cfg, "clientId"),
   apiKey |-> Get(cfg, "apiKey"),
   secretToken |-> Get(cfg, "secretToken")]

\* the options handed to io(): auth payload, or extra headers in "debug"
authOptions(this) ==
  [auth |-> [clientId |-> this.clientId, apiKey |-> this.apiKey,
             secretToken |-> this.secretToken]]
headerOptions(this) ==
  [transportOptions |-> [polling |-> [extraHeaders |->
     ("client-id" :> this.clientId) @@ ("api-key" :> this.apiKey)
       @@ ("secret-token" :> this.secretToken)]]]

\* variant of io: the session is opened bare, credentials would follow later
ioWithoutCredentials(v, this) == [url |-> this.endpoint, opts |-> <<>>]

io(v, this) ==
  [url |-> this.endpoint,
   opts |-> IF v = "debug" THEN headerOptions(this) ELSE authOptions(this)]

NoListeners == [connect |-> 0, connect_error |-> 0, disconnect |-> 0, error |-> <<>>]

\* initializeSocket(): one observer on each lifecycle event
initializeSocket(ls) ==
  [ls EXCEPT !.connect = @ + 1, !.connect_error = @ + 1, !.disconnect = @ + 1]

(* ------------------------------ Init ----------------------------------- *)
Init ==
  /\ variant \in Variants
  /\ phase = "new"
  /\ config = <<>>
  /\ self = <<>>
  /\ thrown = "none"
  /\ ioCalls = <<>>
  /\ listeners = NoListeners
  /\ calls = <<>>
  /\ emitted = <<>>
  /\ sink = <<>>
  /\ nEvents = 0
  /\ lastEvent = NoEvent

(* --------------------------- constructor ------------------------------- *)
\* new MindneySDK(cfg)
Constructor(cfg) ==
  /\ phase = "new"
  /\ config' = cfg
  /\ self' = fields(variant, cfg)
  /\ IF validateCredentials(self')
       THEN /\ thrown' = CredentialsError
            /\ phase' = "failed"
            /\ UNCHANGED <<ioCalls, listeners>>
       ELSE /\ thrown' = "none"
            /\ ioCalls' = Append(ioCalls, io(variant, self'))
            /\ listeners' = initializeSocket(listeners)
            /\ phase' = "ready"
  /\ UNCHANGED <<variant, calls, emitted, sink, nEvents, lastEvent>>

Construct == \E cfg \in Configs : Constructor(cfg)

\* the configurations used when the session itself is exercised: all three
\* credentials given, the default endpoint, debug absent, false or true
SessionConfigs ==
  {cfg \in Configs :
     /\ \A f \in {"clientId", "apiKey", "secretToken"} : Get(cfg, f) = "id"
     /\ "endpoint" \notin DOMAIN cfg}

ConstructSession == \E cfg \in SessionConfigs : Constructor(cfg)

(* ----------------------------- request --------------------------------- *)
\* a settled promise ignores later resolve/reject calls
resolve(c, v) ==
  IF c.state = "pending" THEN [c EXCEPT !.state = "resolved", !.value = v] ELSE c
\* variant of reject: a later rejection overwrites a settled outcome
rejectOverwrites(c, v) == [c EXCEPT !.state = "rejected", !.value = v]

reject(c, v) ==
  IF c.state = "pending" THEN [c EXCEPT !.state = "rejected", !.value = v] ELSE c

\* variant of NewCall: a transport error seen earlier fails the new call
NewCallSticky(payload) ==
  [payload |-> payload,
   state |-> IF lastEvent.type = "error" THEN "rejected" ELSE "pending",
   value |-> IF lastEvent.type = "error" THEN lastEvent.value ELSE NoValue,
   acked |-> FALSE, ackEnv |-> NoValue, firstErr |-> NoValue, errBeforeAck |-> FALSE]

\* the pending operation created by `new Promise(...)`.  acked: the transport
\* has run the acknowledgment callback (it runs it once); ackEnv: the envelope
\* it passed; firstErr: the value of the first "error" event fired since the
\* call's observer was attached; errBeforeAck: that event came before the
\* acknowledgment
NewCall(payload) ==
  [payload |-> payload, state |-> "pending", value |-> NoValue,
   acked |-> FALSE, ackEnv |-> NoValue, firstErr |-> NoValue, errBeforeAck |-> FALSE]

\* the log line of request() in the "debug" build
ExecutingText(payload) ==
  <<"Executing prompt: \"", payload.prompt, "\" | Context: ", BodyText(payload)>>

\* variant of request: the message is sent before the log line is written
requestEmitFirst(payload) ==
  /\ variant = "debug"
  /\ emitted' = Append(emitted, [event |-> "request", payload |-> payload,
                                 ack |-> Len(calls) + 1, after |-> Len(sink)])
  /\ sink' = log(self, sink, "info", ExecutingText(payload))
  /\ calls' = Append(calls, NewCall(payload))
  /\ listeners' = [listeners EXCEPT !.error = Append(@, Len(calls) + 1)]

\* request(payload) of the "debug" build.  A message put on the transport
\* records in `after` how many sink entries had been written when it was sent.
request(payload) ==
  /\ variant = "debug"
  /\ sink' = log(self, sink, "info", ExecutingText(payload))
  /\ emitted' = Append(emitted, [event |-> "request", payload |-> payload,
                                 ack |-> Len(calls) + 1, after |-> Len(sink')])
  /\ calls' = Append(calls, NewCall(payload))
  /\ listeners' = [listeners EXCEPT !.error = Append(@, Len(calls) + 1)]

\* variant of execute: the error observer replaces the one attached before
executeSingleObserver(cmd, message) ==
  /\ variant # "debug"
  /\ emitted' = Append(emitted, [event |-> cmd, payload |-> message,
                                 ack |-> Len(calls) + 1, after |-> Len(sink)])
  /\ calls' = Append(calls, NewCall(message))
  /\ listeners' = [listeners EXCEPT !.error = <<Len(calls) + 1>>]
  /\ UNCHANGED sink

\* request(payload) -> execute("request", payload) of "index" and "legacy"
execute(cmd, message) ==
  /\ variant # "debug"
  /\ emitted' = Append(emitted, [event |-> cmd, payload |-> message,
                                 ack |-> Len(calls) + 1, after |-> Len(sink)])
  /\ calls' = Append(calls, NewCall(message))
  /\ listeners' = [listeners EXCEPT !.error = Append(@, Len(calls) + 1)]
  /\ UNCHANGED sink

Request ==
  /\ phase = "ready"
  /\ Len(calls) < MaxCalls
  /\ \E payload \in Payloads : request(payload) \/ execute("request", payload)
  /\ UNCHANGED <<variant, phase, config, self, thrown, ioCalls, nEvents, lastEvent>>

\* variant of ackCallback: resolves with the envelope's data, not the envelope
ackCallbackUnwrap(c, response) ==
  IF "code" \in DOMAIN response THEN reject(c, response)
  ELSE resolve(c, [data |-> response.data])

\* variant of ackCallback: an error envelope is reduced to its code
ackCallbackCodeOnly(c, response) ==
  IF "code" \in DOMAIN response THEN reject(c, [code |-> response.code])
  ELSE resolve(c, response)

\* variant of ackCallback: tests the value of code, not its presence
ackCallbackTruthy(c, response) ==
  IF "code" \in DOMAIN response /\ response.code # 0 THEN reject(c, response)
  ELSE resolve(c, response)

\* the acknowledgment callback handed to socket.emit
ackCallback(c, response) ==
  IF "code" \in DOMAIN response THEN reject(c, response) ELSE resolve(c, response)

\* the transport delivers something to the session: an acknowledgment or an
\* event.  nEvents counts the deliveries and lastEvent is the latest one.
Event(type, value) ==
  /\ phase = "ready"
  /\ nEvents < MaxEvents
  /\ nEvents' = nEvents + 1
  /\ lastEvent' = [type |-> type, value |-> value]

\* variant of Ack: the acknowledgment is not correlated, it settles every call
AckBroadcast ==
  /\ \E m \in 1..Len(emitted), response \in Envelopes :
       LET i == emitted[m].ack IN
       /\ Event("ack", response)
       /\ ~calls[i].acked
       /\ calls' = [j \in 1..Len(calls) |->
            IF j = i
              THEN [ackCallback(calls[j], response) EXCEPT
                      !.acked = TRUE, !.ackEnv = response,
                      !.errBeforeAck = (calls[i].firstErr # NoValue)]
              ELSE ackCallback(calls[j], response)]
  /\ UNCHANGED <<variant, phase, config, self, thrown, ioCalls, listeners,
                 emitted, sink>>

\* the transport delivers the acknowledgment of emitted message m, once
Ack ==
  /\ \E m \in 1..Len(emitted), response \in Envelopes :
       LET i == emitted[m].ack IN
       /\ Event("ack", response)
       /\ ~calls[i].acked
       /\ calls' = [calls EXCEPT ![i] =
            [ackCallback(@, response) EXCEPT !.acked = TRUE, !.ackEnv = response,
                                             !.errBeforeAck = (calls[i].firstErr # NoValue)]]
  /\ UNCHANGED <<variant, phase, config, self, thrown, ioCalls, listeners,
                 emitted, sink>>

(* ------------------------- transport events ---------------------------- *)
\* socket.on("connect", ...)
onConnect(out) ==
  IF variant = "debug" THEN log(self, out, "info", <<"Successfully connected to Sidney.">>)
  ELSE console(out, "log", <<"Connection established">>)

\* socket.on("connect_error", ...)
onConnectError(out, error) ==
  IF variant = "debug"
    THEN log(self,
             log(self, out, "error",
                 <<"An error occurred while establishing a connection with Sidney.">>),
             "error", <<JSONStringify(error)>>)
    ELSE console(out, "error", <<"Socket.IO connection error:", JSONStringify(error)>>)

\* socket.on("disconnect", ...)
onDisconnect(out, reason) ==
  IF variant = "debug"
    THEN log(self, out, "info", <<"Disconnected from Sidney, reason: ", reason>>)
    ELSE console(out, "log", <<"Connection closed:", reason>>)

\* variant of onError: the transport error is wrapped into an error envelope
onErrorWrapped(st, i, error) ==
  [calls |-> [st.calls EXCEPT ![i] =
                reject(@, [code |-> 0, message |-> JSONStringify(error)])],
   sink |-> st.sink]

\* variant of onError: the observer of a settled call no longer logs
onErrorPendingOnly(st, i, error) ==
  [calls |-> [st.calls EXCEPT ![i] = reject(@, error)],
   sink |-> IF variant = "debug" /\ st.calls[i].state = "pending"
              THEN log(self,
                       log(self, st.sink, "error",
                           <<"An error occurred while performing an prompt">>),
                       "error", <<JSONStringify(error)>>)
              ELSE st.sink]

\* one observer registered by request() on the shared "error" event, run for
\* call i on state st = [calls, sink]
onError(st, i, error) ==
  [calls |-> [st.calls EXCEPT ![i] = reject(@, error)],
   sink |-> IF variant = "debug"
              THEN log(self,
                       log(self, st.sink, "error",
                           <<"An error occurred while performing an prompt">>),
                       "error", <<JSONStringify(error)>>)
              ELSE st.sink]

\* variant of emitError: only the observer registered last is kept
emitErrorLastOnly(obs, st, error) ==
  IF obs = <<>> THEN st ELSE onError(st, obs[Len(obs)], error)

\* the emitter runs the observers of "error" in registration order
RECURSIVE emitError(_, _, _)
emitError(obs, st, error) ==
  IF obs = <<>> THEN st
  ELSE emitError(Tail(obs), onError(st, Head(obs), error), error)

\* variant of Connect: the messages of the pending calls are sent again
ConnectReplays ==
  /\ Event("connect", NoValue)
  /\ listeners.connect > 0
  /\ sink' = onConnect(sink)
  /\ emitted' = emitted \o SelectSeq(emitted, LAMBDA m : calls[m.ack].state = "pending")
  /\ UNCHANGED <<variant, phase, config, self, thrown, ioCalls, listeners, calls>>

Connect ==
  /\ Event("connect", NoValue)
  /\ listeners.connect > 0
  /\ sink' = onConnect(sink)
  /\ UNCHANGED <<variant, phase, config, self, thrown, ioCalls, listeners, calls, emitted>>

\* variant of ConnectError: a failed connect fails the calls in flight
ConnectErrorRejects ==
  \E error \in ConnectErrors :
    /\ Event("connect_error", error)
    /\ listeners.connect_error > 0
    /\ sink' = onConnectError(sink, error)
    /\ calls' = [i \in 1..Len(calls) |-> reject(calls[i], error)]
    /\ UNCHANGED <<variant, phase, config, self, thrown, ioCalls, listeners, emitted>>

ConnectError ==
  \E error \in ConnectErrors :
    /\ Event("connect_error", error)
    /\ listeners.connect_error > 0
    /\ sink' = onConnectError(sink, error)
    /\ UNCHANGED <<variant, phase, config, self, thrown, ioCalls, listeners, calls, emitted>>

\* variant of Disconnect: a lost connection fails the calls in flight
DisconnectRejects ==
  \E reason \in Reasons :
    /\ Event("disconnect", [reason |-> reason])
    /\ listeners.disconnect > 0
    /\ sink' = onDisconnect(sink, reason)
    /\ calls' = [i \in 1..Len(calls) |-> reject(calls[i], [reason |-> reason])]
    /\ UNCHANGED <<variant, phase, config, self, thrown, ioCalls, listeners, emitted>>

\* variant of Disconnect: the component opens a new session itself
DisconnectReconnects ==
  \E reason \in Reasons :
    /\ Event("disconnect", [reason |-> reason])
    /\ listeners.disconnect > 0
    /\ sink' = onDisconnect(sink, reason)
    /\ ioCalls' = Append(ioCalls, io(variant, self))
    /\ UNCHANGED <<variant, phase, config, self, thrown, listeners, calls, emitted>>

Disconnect ==
  \E reason \in Reasons :
    /\ Event("disconnect", [reason |-> reason])
    /\ listeners.disconnect > 0
    /\ sink' = onDisconnect(sink, reason)
    /\ UNCHANGED <<variant, phase, config, self, thrown, ioCalls, listeners, calls, emitted>>

\* the generic "error" event of the shared transport
TransportError ==
  \E error \in ErrorValues :
    /\ Event("error", error)
    /\ LET seen == [i \in 1..Len(calls) |-> [calls[i] EXCEPT !.firstErr = IF @ = NoValue THEN error ELSE @]]
           st == emitError(listeners.error, [calls |-> seen, sink |-> sink], error)
       IN  /\ calls' = st.calls
           /\ sink' = st.sink
    /\ UNCHANGED <<variant, phase, config, self, thrown, ioCalls, listeners, emitted>>

Next ==
  \/ ConstructSession
  \/ Request
  \/ Ack
  \/ Connect
  \/ ConnectError
  \/ Disconnect
  \/ TransportError

Spec == Init /\ [][Next]_vars

\* construction alone, over every configuration
NextConstruct == Construct

SpecConstruct == Init /\ [][NextConstruct]_vars

(* ============================== claims ================================= *)
CredFields == {"clientId", "apiKey", "secretToken"}

\* a credential that is empty or missing in the configuration
EmptyOrMissing(cfg, f) == f \notin DOMAIN cfg \/ cfg[f] = ""

IsSuccessEnvelope(v) == {"operation", "data"} \subseteq DOMAIN v /\ "code" \notin DOMAIN v
IsErrorEnvelope(v) == {"code", "message"} \subseteq DOMAIN v

Calls == 1..Len(calls)
Pending == {i \in Calls : calls[i].state = "pending"}

\* C1: a construction with one of clientId, apiKey, secretToken empty or
\* missing fails with the credentials error, and at that moment io() was
\* never called, no session exists and no lifecycle observer is registered.
C1_MissingCredentialFailsBeforeIO ==
  (phase # "new" /\ \E f \in CredFields : EmptyOrMissing(config, f)) =>
     /\ phase = "failed"
     /\ thrown = CredentialsError
     /\ ioCalls = <<>>
     /\ listeners = NoListeners
     /\ emitted = <<>> /\ calls = <<>>

C1_Witness ==
  /\ phase = "failed"
  /\ "clientId" \in DOMAIN config /\ config.clientId = "id"
  /\ "apiKey" \in DOMAIN config /\ config.apiKey = ""
  /\ "secretToken" \in DOMAIN config /\ config.secretToken = "id"

\* C2: a construction with all three credentials present succeeds, makes
\* exactly one connection attempt, and the attempt targets the endpoint given
\* in the configuration when one is given, otherwise the fixed default.
C2_OneAttemptToConfiguredEndpoint ==
  (phase # "new" /\ \A f \in CredFields : ~EmptyOrMissing(config, f)) =>
     /\ phase = "ready"
     /\ Len(ioCalls) = 1
     /\ ioCalls[1].url = IF "endpoint" \in DOMAIN config THEN config.endpoint
                         ELSE DefaultEndpoint

\* C3: a call whose acknowledgment fired, before any transport error event,
\* with an envelope without a code field is resolved with exactly that
\* envelope.
C3_AckWithoutCodeResolves ==
  \A i \in Calls :
    (calls[i].acked /\ ~calls[i].errBeforeAck /\ "code" \notin DOMAIN calls[i].ackEnv) =>
       calls[i].state = "resolved" /\ calls[i].value = calls[i].ackEnv

C3_Witness ==
  \E i \in Calls :
    /\ calls[i].payload = [prompt |-> "p", body |-> [x |-> 1]]
    /\ calls[i].acked /\ ~calls[i].errBeforeAck
    /\ calls[i].ackEnv = [operation |-> "echo", data |-> [x |-> 1]]
    /\ calls[i].state = "resolved"

\* C4: a call whose acknowledgment fired, before any transport error event,
\* with an envelope that has a code field is rejected with exactly that
\* envelope.
C4_AckWithCodeRejects ==
  \A i \in Calls :
    (calls[i].acked /\ ~calls[i].errBeforeAck /\ "code" \in DOMAIN calls[i].ackEnv) =>
       calls[i].state = "rejected" /\ calls[i].value = calls[i].ackEnv

C4_Witness ==
  \E i \in Calls :
    /\ calls[i].acked /\ ~calls[i].errBeforeAck
    /\ calls[i].ackEnv = [code |-> 404, message |-> "not found"]
    /\ calls[i].state = "rejected"

\* C5: the classification of an acknowledgment depends on the presence of a
\* code field alone: the call settled by it is rejected exactly when the
\* envelope has a code field, also when it has an operation field as well and
\* whatever the value of code.
C5_ClassifiedByCodePresence ==
  \A i \in Calls :
    (calls[i].acked /\ ~calls[i].errBeforeAck) =>
       /\ calls[i].state \in {"resolved", "rejected"}
       /\ (calls[i].state = "rejected") <=> ("code" \in DOMAIN calls[i].ackEnv)

C5_Witness ==
  \E i \in Calls :
    /\ calls[i].acked /\ ~calls[i].errBeforeAck
    /\ {"code", "operation"} \subseteq DOMAIN calls[i].ackEnv
    /\ calls[i].state = "rejected"

\* C6: when two or more calls are pending and one transport error event
\* fires, every one of them is rejected with that event's error.
C6_ErrorRejectsAllPending ==
  [][(nEvents' = nEvents + 1 /\ lastEvent'.type = "error" /\ Cardinality(Pending) >= 2) =>
       \A i \in Pending :
         calls'[i].state = "rejected" /\ calls'[i].value = lastEvent'.value]_vars

C6_Witness ==
  /\ Len(calls) >= 2
  /\ lastEvent.type = "error"
  /\ nEvents = 1
  /\ \A i \in Calls : ~calls[i].acked /\ calls[i].state = "rejected"
                      /\ calls[i].value = lastEvent.value

\* C7: a call that got neither its acknowledgment nor a transport error event
\* is pending, whatever connect, connect_error and disconnect events and
\* other calls occurred.
C7_NoAckNoErrorStaysPending ==
  \A i \in Calls :
    (~calls[i].acked /\ calls[i].firstErr = NoValue) => calls[i].state = "pending"

C7_Witness ==
  /\ nEvents >= 2
  /\ lastEvent.type = "disconnect"
  /\ \E i, j \in Calls :
       /\ ~calls[i].acked /\ calls[i].firstErr = NoValue /\ calls[i].state = "pending"
       /\ calls[j].state # "pending"

\* the debug option is off: not given, or given as false
DebugOff == "debug" \notin DOMAIN config \/ config.debug = FALSE

\* C8: with debug false no log output is produced: the logging sink was
\* never invoked, after any sequence of connect, disconnect, connect_error
\* and error events.
C8_NoLogOutputWhenDebugOff ==
  (phase = "ready" /\ DebugOff) => sink = <<>>

\* C9 as stated: every settled call completed with a success envelope or
\* failed with an error envelope, and with nothing else.
C9_SettlesWithEnvelopeOnly ==
  \A i \in Calls :
    /\ calls[i].state = "resolved" => IsSuccessEnvelope(calls[i].value)
    /\ calls[i].state = "rejected" => IsErrorEnvelope(calls[i].value)

\* C9 (amended): every settled call completed with its acknowledgment's
\* envelope, one without a code field, or failed with its acknowledgment's
\* envelope, one with a code field, or failed with the value of the first
\* transport error event fired after the call was made; with nothing else.
C9_SettlesWithEnvelopeOrTransportError ==
  \A i \in Calls :
    /\ calls[i].state = "resolved" =>
         /\ calls[i].acked /\ calls[i].value = calls[i].ackEnv
         /\ IsSuccessEnvelope(calls[i].value)
    /\ calls[i].state = "rejected" =>
         \/ /\ calls[i].acked /\ calls[i].value = calls[i].ackEnv
            /\ IsErrorEnvelope(calls[i].value)
         \/ /\ calls[i].firstErr \in ErrorValues
            /\ calls[i].value = calls[i].firstErr

C9_Witness ==
  \E i, k \in Calls :
    /\ calls[i].state = "resolved" /\ calls[i].firstErr # NoValue
    /\ calls[k].state = "rejected" /\ calls[k].value \in ErrorValues

\* C10: once a session is open each of clientId, apiKey and secretToken is a
\* string that is neither empty nor whitespace-only, and is the value given
\* at construction.
C10_CredentialsNeverBlank ==
  phase = "ready" =>
    \A f \in CredFields :
      /\ f \in DOMAIN config
      /\ self[f] = config[f]
      /\ self[f] \notin {"", " "}

\* the credentials an io() call carries, as auth payload or as extra headers
Carried(opts) ==
  IF "auth" \in DOMAIN opts
    THEN <<opts.auth.clientId, opts.auth.apiKey, opts.auth.secretToken>>
  ELSE IF "transportOptions" \in DOMAIN opts
    THEN LET h == opts.transportOptions.polling.extraHeaders
         IN  <<h["client-id"], h["api-key"], h["secret-token"]>>
  ELSE <<Undefined, Undefined, Undefined>>

\* C11: every connection attempt, the constructor's first one included,
\* carries the clientId, apiKey and secretToken of the configuration, as auth
\* payload or as extra headers; none is made without them.
C11_CredentialsWithFirstAttempt ==
  /\ phase = "ready" => Len(ioCalls) >= 1
  /\ \A k \in 1..Len(ioCalls) :
       /\ \A f \in CredFields : f \in DOMAIN config
       /\ Carried(ioCalls[k].opts) = <<config.clientId, config.apiKey, config.secretToken>>

C11_Witness ==
  /\ phase = "ready"
  /\ variant = "debug"
  /\ Len(ioCalls) = 1
  /\ "transportOptions" \in DOMAIN ioCalls[1].opts
  /\ Carried(ioCalls[1].opts) = <<"id", "id", "id">>

\* the step delivers call i's acknowledgment
AckStep(i) == i \in Calls /\ ~calls[i].acked /\ calls'[i].acked

\* the step delivers a transport event of the given type
EventStep(type) == nEvents' = nEvents + 1 /\ lastEvent'.type = type

\* C12: a call settles at most once: once resolved or rejected, no later
\* acknowledgment and no later transport error event changes its outcome or
\* its value.
C12_SettledOutcomeIsFinal ==
  [][\A i \in Calls :
       calls[i].state # "pending" =>
         calls'[i].state = calls[i].state /\ calls'[i].value = calls[i].value]_vars

C12_Witness ==
  \E i, j \in Calls :
    /\ calls[i].acked /\ ~calls[i].errBeforeAck /\ calls[i].firstErr # NoValue
    /\ calls[i].state = "resolved" /\ calls[i].value = calls[i].ackEnv
    /\ calls[j].acked /\ calls[j].errBeforeAck
    /\ calls[j].state = "rejected" /\ calls[j].value = calls[j].firstErr

\* C13: the acknowledgment of one call settles that call only: every other
\* call, pending or settled, is left as it was.
C13_AckSettlesOnlyItsCall ==
  [][\A i \in Calls :
       AckStep(i) => \A j \in Calls \ {i} : calls'[j] = calls[j]]_vars

C13_Witness ==
  /\ lastEvent.type = "ack"
  /\ \E i, j \in Calls :
       /\ calls[i].acked /\ calls[i].state # "pending" /\ calls[i].firstErr = NoValue
       /\ ~calls[j].acked /\ calls[j].state = "pending"

\* C14: the observers attached to the shared "error" event are one per
\* request call made so far, settled or not, and their number never
\* decreases.
C14_OneErrorObserverPerCall ==
  [][/\ Len(listeners.error) = Len(calls)
     /\ Len(listeners'.error) = Len(calls')
     /\ Len(listeners'.error) >= Len(listeners.error)]_vars

C14_Witness ==
  /\ Len(listeners.error) = 2
  /\ Len(calls) = 2
  /\ \A i \in Calls : calls[i].state # "pending"

\* C15: a connect_error event is logged only: it settles no call, raises no
\* error, and leaves the calls, the observers, the emitted messages and the
\* session as they were.
C15_ConnectErrorOnlyLogs ==
  [][EventStep("connect_error") =>
       /\ calls' = calls
       /\ listeners' = listeners
       /\ thrown' = thrown
       /\ emitted' = emitted
       /\ ioCalls' = ioCalls /\ phase' = phase]_vars

C15_Witness ==
  /\ lastEvent.type = "connect_error"
  /\ thrown = "none"
  /\ Pending # {}
  /\ sink # <<>> /\ sink[Len(sink)].level = "error"

\* C16: a disconnect event settles no call, and nothing is queued or sent
\* again: the "request" messages emitted are one per request call made, in
\* order, each carrying its call's payload, whatever events came before the
\* call.
C16_OneMessagePerCall ==
  [][/\ Len(emitted') = Len(calls')
     /\ \A m \in 1..Len(emitted') :
          /\ emitted'[m].event = "request"
          /\ emitted'[m].ack = m
          /\ emitted'[m].payload = calls'[m].payload
     /\ EventStep("disconnect") => calls' = calls /\ emitted' = emitted
     /\ EventStep("connect") => emitted' = emitted]_vars

C16_Witness ==
  /\ variant = "index"
  /\ lastEvent.type = "connect"
  /\ Len(emitted) = Len(calls)
  /\ \E m \in 1..Len(emitted) :
       /\ emitted[m].after >= 1
       /\ sink[emitted[m].after].text[1] = "Connection closed:"
       /\ calls[m].state = "pending"

\* C17: after any sequence of events and request calls the instance has made
\* exactly one connection attempt, the constructor's, and holds one session
\* with one observer on each lifecycle event.
C17_ExactlyOneConnectionAttempt ==
  phase = "ready" =>
    /\ Len(ioCalls) = 1
    /\ ioCalls[1].url = self.endpoint
    /\ listeners.connect = 1 /\ listeners.connect_error = 1 /\ listeners.disconnect = 1

C17_Witness ==
  /\ phase = "ready"
  /\ Len(ioCalls) = 1
  /\ nEvents >= 3
  /\ lastEvent.type = "disconnect"
  /\ Len(calls) >= 1

\* the info line request() writes for a payload
ExecutingEntry(payload) ==
  [via |-> "logger", level |-> "info", text |-> ExecutingText(payload)]

\* C18: with debug enabled, the info line with the prompt and the serialised
\* body of a call is in the log before the call's message is emitted, and a
\* transport error event that reaches a call's observer writes error lines,
\* one of them the serialised error.
C18_LogBeforeEmitAndOnError ==
  [][(phase = "ready" /\ self.debug) =>
       /\ \A m \in 1..Len(emitted') :
            /\ emitted'[m].after >= 1
            /\ emitted'[m].after <= Len(sink')
            /\ sink'[emitted'[m].after] = ExecutingEntry(emitted'[m].payload)
       /\ (EventStep("error") /\ calls # <<>>) =>
            /\ Len(sink') > Len(sink)
            /\ \A k \in (Len(sink) + 1)..Len(sink') : sink'[k].level = "error"
            /\ \E k \in (Len(sink) + 1)..Len(sink') :
                 sink'[k].text = <<JSONStringify(lastEvent'.value)>>]_vars

C18_Witness ==
  /\ phase = "ready" /\ self.debug
  /\ \E m \in 1..Len(emitted) :
       /\ emitted[m].payload = [prompt |-> "q"]
       /\ sink[emitted[m].after].text = <<"Executing prompt: \"", "q", "\" | Context: ", "undefined">>
       /\ emitted[m].after < Len(sink)
       /\ sink[Len(sink)].level = "error"
  /\ lastEvent.type = "error"

\* C19: with debug enabled one transport error event writes two error lines
\* for every request call made so far, settled ones included, and changes
\* the outcome of the pending calls only.
C19_SettledObserversStillLog ==
  [][(phase = "ready" /\ self.debug /\ EventStep("error")) =>
       /\ Len(sink') = Len(sink) + 2 * Len(calls)
       /\ \A k \in (Len(sink) + 1)..Len(sink') : sink'[k].level = "error"
       /\ \A i \in Calls :
            IF calls[i].state = "pending"
              THEN calls'[i].state = "rejected" /\ calls'[i].value = lastEvent'.value
              ELSE calls'[i].state = calls[i].state /\ calls'[i].value = calls[i].value]_vars

C19_Witness ==
  /\ phase = "ready" /\ self.debug
  /\ lastEvent.type = "error"
  /\ Len(calls) = 2
  /\ Len(sink) = 6
  /\ \E i, j \in Calls :
       /\ calls[i].acked /\ ~calls[i].errBeforeAck /\ calls[i].state = "resolved"
       /\ calls[i].firstErr # NoValue
       /\ ~calls[j].acked /\ calls[j].state = "rejected"

\* C20: a call made after a transport error event starts pending, whatever
\* fired before it, and a pending call leaves that state only on its own
\* acknowledgment or on a transport error event fired after it was made.
C20_PastErrorDoesNotReject ==
  [][\A i \in 1..Len(calls') :
       /\ i \notin Calls =>
            calls'[i].state = "pending" /\ calls'[i].firstErr = NoValue
       /\ (i \in Calls /\ calls[i].state = "pending" /\ calls'[i].state # "pending") =>
            AckStep(i) \/ EventStep("error")]_vars

C20_Witness ==
  /\ Len(calls) = 2
  /\ lastEvent.type = "error"
  /\ calls[1].firstErr # NoValue /\ calls[1].state = "rejected"
  /\ calls[2].firstErr = NoValue /\ ~calls[2].acked /\ calls[2].state = "pending"
====
